---- MODULE Spec2Model ----
(***************************************************************************)
(* A model of src/main.py: the MmwaveRgbled service, which polls a         *)
(* presence sensor and drives an RGB LED.  Channel intensities are floats  *)
(* in the source; here they are integers in tenths (1.0 is 10).            *)
(***************************************************************************)
EXTENDS Integers, Sequences, FiniteSets, TLC

(***************************************************************************)
(* Bounds of the model.                                                    *)
(***************************************************************************)
\* the number of ticks one traced run of on_loop makes (SpecTrace)
MaxTicks == 3

(***************************************************************************)
(* Values.                                                                 *)
(***************************************************************************)
Inst == {"A", "B"}

NoTarget == "No Target"
MovingTarget == "Moving Target"
StaticTarget == "Static Target"
MovingAndStatic == "Moving and Static Targets"

Statuses == {NoTarget, MovingTarget, StaticTarget, MovingAndStatic}

Channels == <<"red", "green", "blue">>

\* the float NaN, which compares false with everything
NaN == -999

Color(r, g, b) == [red |-> r, green |-> g, blue |-> b]

DEFAULT_COLORS ==
  [s \in Statuses |->
     CASE s = NoTarget -> Color(0, 0, 10)
       [] s = MovingTarget -> Color(10, 0, 0)
       [] s = StaticTarget -> Color(0, 10, 0)
       [] s = MovingAndStatic -> Color(10, 0, 10)]

\* the color_keys of load_color_config, as pairs <<key, readable_key>> in order
color_keys ==
  << <<"no_target", NoTarget>>,
     <<"moving_target", MovingTarget>>,
     <<"static_target", StaticTarget>>,
     <<"moving_and_static_targets", MovingAndStatic>> >>

(***************************************************************************)
(* Configuration values, as struct_to_dict hands them over: a number, a    *)
(* string (numeric or not), a boolean, null, a list or a mapping.          *)
(***************************************************************************)
VNum(v) == [t |-> "num", v |-> v]
VNumStr(v) == [t |-> "numstr", v |-> v]
VStr(s) == [t |-> "str", s |-> s]
VBool(b) == [t |-> "bool", b |-> b]
VNull == [t |-> "null"]
VList == [t |-> "list"]
VDict(f) == [t |-> "dict", items |-> f]

EmptyDict == [k \in {} |-> VNull]

dict_get(d, key, default) == IF key \in DOMAIN d THEN d[key] ELSE default

\* Python's float(x): raises ValueError/TypeError on what is no number
float(x) ==
  CASE x.t = "num" -> [ok |-> TRUE, v |-> x.v]
    [] x.t = "numstr" -> [ok |-> TRUE, v |-> x.v]
    [] x.t = "bool" -> [ok |-> TRUE, v |-> IF x.b THEN 10 ELSE 0]
    [] OTHER -> [ok |-> FALSE, v |-> 0]

\* Python's max(a, b) and min(a, b): the first argument unless the second wins
pymax(a, b) == IF a # NaN /\ b # NaN /\ b > a THEN b ELSE a
pymin(a, b) == IF a # NaN /\ b # NaN /\ b < a THEN b ELSE a

\* a channel read with float() and not clamped
clamp_channel_unclamped(custom, default, ch) ==
  float(dict_get(custom, ch, VNum(default[ch])))

\* min(max(float(custom.get(ch, default[ch])), 0.0), 1.0)
clamp_channel(custom, default, ch) ==
  LET f == float(dict_get(custom, ch, VNum(default[ch])))
  IN [ok |-> f.ok, v |-> pymin(pymax(f.v, 0), 10)]

\* one pass of the loop body of load_color_config for one status
validated_color(custom_color, default_color) ==
  IF custom_color.t = "dict"
    THEN LET r == clamp_channel(custom_color.items, default_color, "red")
             g == clamp_channel(custom_color.items, default_color, "green")
             b == clamp_channel(custom_color.items, default_color, "blue")
         IN IF r.ok /\ g.ok /\ b.ok THEN Color(r.v, g.v, b.v) ELSE default_color
    ELSE default_color

\* load_color_config: color_attrs.get on what is no mapping raises AttributeError
load_color_config(color_attrs) ==
  IF color_attrs.t # "dict"
    THEN [raised |-> TRUE, colors |-> DEFAULT_COLORS]
    ELSE [raised |-> FALSE,
          colors |->
            [s \in Statuses |->
               LET k == CHOOSE n \in 1..Len(color_keys) : color_keys[n][2] = s
               IN validated_color(dict_get(color_attrs.items, color_keys[k][1], VDict(EmptyDict)),
                                  DEFAULT_COLORS[s])]]

(***************************************************************************)
(* validate_config: the required keys, in order; the first that is absent  *)
(* or no string raises ValueError naming it.                               *)
(***************************************************************************)
required_keys == <<"board", "sensor", "rgb_led">>

RECURSIVE validate_from(_, _, _)
validate_from(fields, n, dependencies) ==
  IF n > Len(required_keys)
    THEN [raised |-> FALSE, key |-> "", dependencies |-> dependencies]
    ELSE LET key == required_keys[n]
         IN IF key \in DOMAIN fields /\ fields[key].t \in {"str", "numstr"}
              THEN validate_from(fields, n + 1, Append(dependencies, fields[key]))
              ELSE [raised |-> TRUE, key |-> key, dependencies |-> <<>>]

\* a validate_config that tests presence only, not the type
validate_config_presence(fields) ==
  IF \A n \in 1..Len(required_keys) : required_keys[n] \in DOMAIN fields
    THEN [raised |-> FALSE, key |-> "",
          dependencies |-> [n \in 1..Len(required_keys) |-> fields[required_keys[n]]]]
    ELSE [raised |-> TRUE,
          key |-> required_keys[CHOOSE n \in 1..Len(required_keys) :
                                  /\ required_keys[n] \notin DOMAIN fields
                                  /\ \A m \in 1..(n - 1) : required_keys[m] \in DOMAIN fields],
          dependencies |-> <<>>]

validate_config(fields) == validate_from(fields, 1, <<>>)

(***************************************************************************)
(* The state.  event and task are class attributes (lines 26-27): the code *)
(* never assigns either on an instance, so every instance reads the same.  *)
(***************************************************************************)
VARIABLES
  insts,            \* the controllers the host has constructed
  event,            \* the class-level threading.Event: TRUE when set
  task,             \* the class-level task attribute
  tasks,            \* per controller: the loop tasks it has created and not finished
  auto_start,       \* per controller: self.auto_start
  sensor,           \* per controller: TRUE when self.sensor is a handle, FALSE when None
  rgb_led,          \* per controller: TRUE when self.rgb_led is a handle, FALSE when None
  color_attributes, \* per controller: self.color_attributes
  pc,               \* per controller: where its control_loop coroutine is suspended
  last_color,       \* on_loop's local last_color: <<>> is None, <<c>> a color
  color,            \* on_loop's local color while its command is in flight
  tracing,          \* whether the I/O of the loop is being recorded
  trace,            \* per controller: the I/O of its current on_loop run, when tracing
  lastCall,         \* the last lifecycle call the host made, and its outcome
  repeated,         \* whether the last two calls were the same call on the same controller
  stopped,          \* per controller: its last start()/stop() was a stop()
  vc_fields,        \* the attributes last handed to validate_config
  vc_result,        \* what validate_config made of them
  lc_color_attrs,   \* the color_attrs last handed to load_color_config
  lc_result         \* what load_color_config made of them

vars == <<insts, event, task, tasks, auto_start, sensor, rgb_led, color_attributes,
          pc, last_color, color, tracing, trace, lastCall, repeated, stopped,
          vc_fields, vc_result, lc_color_attrs, lc_result>>

loopVars == <<pc, last_color, color, trace>>
configVars == <<auto_start, sensor, rgb_led, color_attributes>>
callVars == <<lastCall, repeated, stopped>>
vcVars == <<vc_fields, vc_result>>
lcVars == <<lc_color_attrs, lc_result>>

\* self.event of controller i: the class attribute
flag(i) == event

(***************************************************************************)
(* What the sensor and the LED may answer.                                 *)
(***************************************************************************)
ReadingOf(v) == [k \in {"detection_status"} |-> v]

\* get_readings(): a mapping, or an exception
ReadOk(rd) == [ok |-> TRUE, readings |-> rd]
ReadRaises == [ok |-> FALSE, readings |-> EmptyDict]

\* every kind of answer: the four statuses, an unknown one, one that is no
\* string, no detection_status key at all, an exception
AllOutcomes ==
  {ReadOk(ReadingOf(v)) : v \in {VStr(s) : s \in Statuses} \cup {VStr("Bogus"), VList}}
    \cup {ReadOk(EmptyDict), ReadRaises}

\* the answers of the sensor of Spec: three of the statuses and the odd ones
ReadOutcomes ==
  {r \in AllOutcomes : r.readings # ReadingOf(VStr(MovingAndStatic))}

\* the answers of the sensors of SpecTwo
TwoOutcomes ==
  {ReadOk(ReadingOf(VStr(NoTarget))), ReadOk(ReadingOf(VStr(MovingTarget))), ReadRaises}

\* a hashable value can be looked up in a dict; a list raises TypeError
hashable(v) == v.t # "list"

\* line 117: duration 2.0
EvRipple == [ev |-> "ripple", duration |-> 20]
EvControl(c) == [ev |-> "control_rgb_led", color |-> c]
EvRead(rd) == [ev |-> "read", readings |-> rd]
EvReadError == [ev |-> "read_error"]
EvLedError == [ev |-> "led_error"]
EvCancelled == [ev |-> "cancelled"]
\* line 124 with self.sensor None: the tick takes {} for its readings
EvNoSensor == [ev |-> "no_sensor"]

Log(tr, e) == IF tracing THEN Append(tr, e) ELSE tr

(***************************************************************************)
(* on_loop and control_loop, one step per await.  A step yields the new    *)
(* values of the coroutine's position and locals.                          *)
(***************************************************************************)
At(p, lc, c, tr) == [pc |-> p, last_color |-> lc, color |-> c, trace |-> tr]

Move(i, to) ==
  /\ pc' = [pc EXCEPT ![i] = to.pc]
  /\ last_color' = [last_color EXCEPT ![i] = to.last_color]
  /\ color' = [color EXCEPT ![i] = to.color]
  /\ trace' = [trace EXCEPT ![i] = to.trace]

\* lines 125-147: from the readings to the LED command, or the skip
resolve(i, lc, tr, readings) ==
  LET got == dict_get(readings, "detection_status", VStr(NoTarget))
  IN IF ~hashable(got)
       THEN At("sleep", lc, <<>>, tr)  \* TypeError, caught at line 149
       ELSE LET detection_status ==
                  IF got.t = "str" /\ got.s \in DOMAIN color_attributes[i]
                    THEN got.s ELSE NoTarget
                col == color_attributes[i][detection_status]
            IN IF rgb_led[i] /\ <<col>> # lc
                 THEN At("cmd", lc, <<col>>, Log(tr, EvControl(col)))
                 ELSE At("sleep", lc, <<>>, tr)

\* a read whose exception is not caught: it ends the loop
on_read_error_raises(i, lc, tr) == At("raised_io", <<>>, <<>>, Log(tr, EvReadError))

\* what an exception raised while reading or resolving does (lines 149-150)
on_read_error(i, lc, tr) == At("sleep", lc, <<>>, Log(tr, EvReadError))

\* a tick that does nothing when there is no sensor
while_test_skips_unbound(i, lc, tr) ==
  IF flag(i)
    THEN At("yield", <<>>, <<>>, Log(tr, EvCancelled))
    ELSE IF sensor[i]
           THEN At("read", lc, <<>>, tr)
           ELSE At("sleep", lc, <<>>, Log(tr, EvNoSensor))

\* line 122 and line 124: the loop test, then the tick's read
while_test(i, lc, tr) ==
  IF flag(i)
    THEN At("yield", <<>>, <<>>, Log(tr, EvCancelled))  \* on_loop returns; line 169
    ELSE IF sensor[i]
           THEN At("read", lc, <<>>, tr)
           ELSE resolve(i, lc, Log(tr, EvNoSensor), EmptyDict)

\* line 120, the unguarded command: None has no do_command
startup_command(i, tr) ==
  IF rgb_led[i]
    THEN At("startup", <<>>, <<>>, Log(tr, EvControl(Color(10, 0, 0))))
    ELSE At("raised_attr", <<>>, <<>>, tr)

\* an on_loop that goes straight to the startup command
enter_on_loop_no_ripple(i) == startup_command(i, <<>>)

\* lines 111-120: entering on_loop
enter_on_loop(i) ==
  IF rgb_led[i]
    THEN At("ripple", <<>>, <<>>, Log(<<>>, EvRipple))
    ELSE startup_command(i, <<>>)

\* line 167: control_loop's test
control_test(i) ==
  IF flag(i) THEN At("done", <<>>, <<>>, trace[i]) ELSE enter_on_loop(i)

\* a tick may start: the traced runs are cut after MaxTicks ticks
MayTick(i) ==
  ~tracing \/ Cardinality({k \in 1..Len(trace[i]) :
                             trace[i][k].ev \in {"read", "read_error", "no_sensor"}}) < MaxTicks

\* the host (or a test) awaits control_loop()
Launch(i) ==
  /\ i \in insts
  /\ pc[i] \in {"idle", "done", "raised_attr", "raised_io"}
  /\ Move(i, control_test(i))
  /\ UNCHANGED <<insts, event, task, tasks, configVars, tracing, callVars, vcVars, lcVars>>

\* line 117 returns or raises (outside any try)
RippleReturn(i) ==
  /\ i \in insts
  /\ pc[i] = "ripple"
  /\ \E ok \in BOOLEAN :
       Move(i, IF ok THEN At("ripple_sleep", <<>>, <<>>, trace[i])
                     ELSE At("raised_io", <<>>, <<>>, Log(trace[i], EvLedError)))
  /\ UNCHANGED <<insts, event, task, tasks, configVars, tracing, callVars, vcVars, lcVars>>

\* line 118 is over: line 120
RippleSleepDone(i) ==
  /\ i \in insts
  /\ pc[i] = "ripple_sleep"
  /\ Move(i, startup_command(i, trace[i]))
  /\ UNCHANGED <<insts, event, task, tasks, configVars, tracing, callVars, vcVars, lcVars>>

\* line 120 returns or raises (outside any try)
StartupReturn(i) ==
  /\ i \in insts
  /\ pc[i] = "startup"
  /\ MayTick(i)
  /\ \E ok \in BOOLEAN :
       Move(i, IF ok THEN while_test(i, <<>>, trace[i])
                     ELSE At("raised_io", <<>>, <<>>, Log(trace[i], EvLedError)))
  /\ UNCHANGED <<insts, event, task, tasks, configVars, tracing, callVars, vcVars, lcVars>>

\* line 124 returns or raises
ReadReturn(i, outcomes) ==
  /\ i \in insts
  /\ pc[i] = "read"
  /\ \E r \in outcomes :
       Move(i, IF r.ok
                 THEN resolve(i, last_color[i], Log(trace[i], EvRead(r.readings)), r.readings)
                 ELSE on_read_error(i, last_color[i], trace[i]))
  /\ UNCHANGED <<insts, event, task, tasks, configVars, tracing, callVars, vcVars, lcVars>>

\* a command whose color is recorded before it is known to have succeeded
cmd_return_eager(i, ok) ==
  At("sleep", color[i], <<>>, IF ok THEN trace[i] ELSE Log(trace[i], EvLedError))

\* lines 138-150: line 145 records the color when the command has returned;
\* an exception goes to line 149 and leaves last_color alone
cmd_return(i, ok) ==
  IF ok THEN At("sleep", color[i], <<>>, trace[i])
        ELSE At("sleep", last_color[i], <<>>, Log(trace[i], EvLedError))

\* lines 138-145: the command returns, or raises into line 149
CmdReturn(i) ==
  /\ i \in insts
  /\ pc[i] = "cmd"
  /\ \E ok \in BOOLEAN : Move(i, cmd_return(i, ok))
  /\ UNCHANGED <<insts, event, task, tasks, configVars, tracing, callVars, vcVars, lcVars>>

\* line 152 is over: back to line 122
SleepDone(i) ==
  /\ i \in insts
  /\ pc[i] = "sleep"
  /\ MayTick(i)
  /\ Move(i, while_test(i, last_color[i], trace[i]))
  /\ UNCHANGED <<insts, event, task, tasks, configVars, tracing, callVars, vcVars, lcVars>>

\* line 169 is over: back to line 167
YieldDone(i) ==
  /\ i \in insts
  /\ pc[i] = "yield"
  /\ Move(i, control_test(i))
  /\ UNCHANGED <<insts, event, task, tasks, configVars, tracing, callVars, vcVars, lcVars>>

LoopStep(i, outcomes) ==
  \/ Launch(i)
  \/ RippleReturn(i)
  \/ RippleSleepDone(i)
  \/ StartupReturn(i)
  \/ ReadReturn(i, outcomes)
  \/ CmdReturn(i)
  \/ SleepDone(i)
  \/ YieldDone(i)

(***************************************************************************)
(* The lifecycle calls of the host.  Each is synchronous: it runs between  *)
(* two awaits of the loop.                                                 *)
(***************************************************************************)
task_done == task \in {"finished", "cancelled"}

\* a start() that launches a task whether or not one is alive
start_unguarded(i) == [event |-> FALSE, tasks |-> tasks[i] + 1]

\* lines 154-157: the flag and the controller's tasks after start()
start(i) ==
  [event |-> IF task = "None" \/ task_done THEN FALSE ELSE event,
   tasks |-> tasks[i]]

\* a stop() that cancels without testing that there is a task
stop_cancels(i) == [event |-> TRUE, task |-> "cancelled"]

\* lines 159-163: the flag and the task attribute after stop()
stop(i) ==
  [event |-> TRUE,
   task |-> IF task # "None" THEN "cancelled" ELSE task]

Called(i, op, raised, keys, value) ==
  /\ lastCall' = [inst |-> i, op |-> op, raised |-> raised, keys |-> keys, value |-> value]
  /\ repeated' = (lastCall.inst = i /\ lastCall.op = op)

Start(i) ==
  /\ i \in insts
  /\ event' = start(i).event
  /\ tasks' = [tasks EXCEPT ![i] = start(i).tasks]
  /\ stopped' = [stopped EXCEPT ![i] = FALSE]
  /\ Called(i, "start", FALSE, {}, EmptyDict)
  /\ UNCHANGED <<insts, task, configVars, loopVars, tracing, vcVars, lcVars>>

Stop(i) ==
  /\ i \in insts
  /\ event' = stop(i).event
  /\ task' = stop(i).task
  /\ stopped' = [stopped EXCEPT ![i] = TRUE]
  /\ Called(i, "stop", FALSE, {}, EmptyDict)
  /\ UNCHANGED <<insts, tasks, configVars, loopVars, tracing, vcVars, lcVars>>

\* lines 174-175
Close(i) ==
  /\ i \in insts
  /\ event' = stop(i).event
  /\ task' = stop(i).task
  /\ stopped' = [stopped EXCEPT ![i] = TRUE]
  /\ Called(i, "close", FALSE, {}, EmptyDict)
  /\ UNCHANGED <<insts, tasks, configVars, loopVars, tracing, vcVars, lcVars>>

(***************************************************************************)
(* The configurations the host may hand to reconfigure.                    *)
(***************************************************************************)
AutoStartOpts ==
  {EmptyDict} \cup {("auto_start" :> v) : v \in {VBool(TRUE), VBool(FALSE)}}

\* static_target overridden with red = 1.5 and green = -0.2
CustomColors ==
  ("static_target" :> VDict(("red" :> VNum(15)) @@ ("green" :> VNum(-2))))

\* the attributes beside the three dependency names: auto_start absent or
\* given, color_attributes absent, an override, or a string
AttrSets ==
  AutoStartOpts
    \cup {a @@ ("color_attributes" :> VDict(CustomColors)) :
            a \in {EmptyDict, ("auto_start" :> VBool(FALSE))}}
    \cup {("color_attributes" :> VStr("red"))}

Configs ==
  {[attrs |-> a, sensor |-> s, rgb_led |-> l] :
     a \in AttrSets, s \in BOOLEAN, l \in BOOLEAN}

\* the configurations of the two-controller deployment
TwoConfigs == {[attrs |-> EmptyDict, sensor |-> TRUE, rgb_led |-> TRUE]}

\* Python's bool(x)
truthy(x) ==
  CASE x.t = "bool" -> x.b
    [] x.t = "num" -> x.v # 0
    [] x.t = "str" -> x.s # ""
    [] x.t = "null" -> FALSE
    [] OTHER -> TRUE

\* line 62
read_auto_start(attrs, current) ==
  IF "auto_start" \in DOMAIN attrs THEN truthy(attrs["auto_start"]) ELSE current

\* lines 69-70
read_colors(attrs) ==
  load_color_config(dict_get(attrs, "color_attributes", VDict(EmptyDict)))

\* the color table of each attribute set of the model, computed once
LoadedColors == [a \in AttrSets |-> read_colors(a)]

\* lines 58-75.  cfg.sensor and cfg.rgb_led say whether the dependency resolved.
Reconfigure(i, cfg) ==
  LET auto == read_auto_start(cfg.attrs, auto_start[i])
      loaded == LoadedColors[cfg.attrs]
      starts == ~loaded.raised /\ auto
  IN /\ i \in insts
     /\ auto_start' = [auto_start EXCEPT ![i] = auto]
     /\ sensor' = [sensor EXCEPT ![i] = cfg.sensor]
     /\ rgb_led' = [rgb_led EXCEPT ![i] = cfg.rgb_led]
     /\ color_attributes' =
          IF loaded.raised THEN color_attributes
          ELSE [color_attributes EXCEPT ![i] = loaded.colors]
     /\ event' = IF starts THEN start(i).event ELSE event
     /\ tasks' = IF starts THEN [tasks EXCEPT ![i] = start(i).tasks] ELSE tasks
     /\ stopped' = IF starts THEN [stopped EXCEPT ![i] = FALSE] ELSE stopped
     /\ Called(i, "reconfigure", loaded.raised, DOMAIN cfg.attrs, EmptyDict)
     /\ UNCHANGED <<insts, task, loopVars, tracing, vcVars, lcVars>>

\* The class defines no do_command (lines 20-27): the call reaches the one it
\* inherits from the service base, which raises NotImplementedError.
do_command(i, command) == [raised |-> TRUE, value |-> EmptyDict]

DoCommand(i, command) ==
  LET r == do_command(i, command)
  IN /\ i \in insts
     /\ Called(i, "do_command", r.raised, DOMAIN command, r.value)
     /\ UNCHANGED <<insts, event, task, tasks, stopped, configVars, loopVars, tracing, vcVars, lcVars>>

\* lines 42-55
ValidateConfig(fields) ==
  /\ vc_fields' = fields
  /\ vc_result' = validate_config(fields)
  /\ UNCHANGED <<insts, event, task, tasks, configVars, loopVars, tracing, callVars, lcVars>>

\* what a channel of an override may hold: numbers in and out of [0, 1],
\* the string "nan", a string that is no number
ChannelValues == {VNum(-2), VNum(5), VNum(15), VNumStr(NaN), VStr("x")}

\* the overrides of one status: any of the channels, any of the values
Overrides ==
  UNION {[cs -> ChannelValues] : cs \in SUBSET {"red", "green", "blue"}}

\* color_attributes: one status overridden, or given what is no mapping; no
\* override at all; what is no mapping itself
ColorInputs ==
  {VDict(color_keys[n][1] :> VDict(o)) : n \in 1..Len(color_keys), o \in Overrides}
    \cup {VDict(color_keys[n][1] :> VStr("red")) : n \in 1..Len(color_keys)}
    \cup {VDict(EmptyDict), VStr("red"), VNull, VList}

\* the table of each color_attributes of the model, computed once
LoadedInputs == [c \in ColorInputs |-> load_color_config(c)]

\* lines 78-106, called on its own
LoadColorConfig(color_attrs) ==
  /\ lc_color_attrs' = color_attrs
  /\ lc_result' = LoadedInputs[color_attrs]
  /\ UNCHANGED <<insts, event, task, tasks, configVars, loopVars, tracing, callVars, vcVars>>

(***************************************************************************)
(* The commands and the attribute sets the host may send.                  *)
(***************************************************************************)
Commands ==
  {("start" :> VNull), ("stop" :> VNull), ("blink" :> VNull),
   ("start" :> VNull) @@ ("blink" :> VNull)}

FieldValues == {VStr("a"), VStr("b"), VNum(1), VNull}

FieldSets ==
  UNION {[ks -> FieldValues] : ks \in SUBSET {"board", "sensor", "rgb_led"}}

(***************************************************************************)
(* The initial states: every controller of I has been constructed, which   *)
(* runs reconfigure (line 40) on a fresh instance with a configuration of  *)
(* C that it accepts.                                                      *)
(***************************************************************************)
NoCall == [inst |-> "", op |-> "", raised |-> FALSE, keys |-> {}, value |-> EmptyDict]

InitWith(I, C, tr) ==
  /\ insts = I
  /\ event = FALSE
  /\ task = "None"
  /\ tasks = [i \in Inst |-> 0]
  /\ \E f \in [I -> {c \in C : ~read_colors(c.attrs).raised}] :
       /\ auto_start = [i \in Inst |-> IF i \in I THEN read_auto_start(f[i].attrs, TRUE) ELSE TRUE]
       /\ sensor = [i \in Inst |-> IF i \in I THEN f[i].sensor ELSE FALSE]
       /\ rgb_led = [i \in Inst |-> IF i \in I THEN f[i].rgb_led ELSE FALSE]
       /\ color_attributes =
            [i \in Inst |-> IF i \in I THEN read_colors(f[i].attrs).colors ELSE DEFAULT_COLORS]
  /\ pc = [i \in Inst |-> "idle"]
  /\ last_color = [i \in Inst |-> <<>>]
  /\ color = [i \in Inst |-> <<>>]
  /\ tracing = tr
  /\ trace = [i \in Inst |-> <<>>]
  /\ lastCall = NoCall
  /\ repeated = FALSE
  /\ stopped = [i \in Inst |-> FALSE]
  /\ vc_fields = EmptyDict
  /\ vc_result = validate_config(EmptyDict)
  /\ lc_color_attrs = VDict(EmptyDict)
  /\ lc_result = load_color_config(VDict(EmptyDict))

\* one controller, every lifecycle call, the loop
Init == InitWith({"A"}, Configs, FALSE)

Next ==
  \E i \in Inst :
    \/ LoopStep(i, ReadOutcomes)
    \/ Start(i)
    \/ Stop(i)
    \/ Close(i)
    \/ \E cfg \in Configs : Reconfigure(i, cfg)
    \/ \E command \in Commands : DoCommand(i, command)

Spec == Init /\ [][Next]_vars

\* two controllers of the same class in one host, both fully bound
InitTwo == InitWith({"A", "B"}, TwoConfigs, FALSE)

NextTwo ==
  \E i \in Inst :
    \/ LoopStep(i, TwoOutcomes)
    \/ Start(i)
    \/ Stop(i)
    \/ Close(i)

SpecTwo == InitTwo /\ [][NextTwo]_vars

\* one controller, started and stopped, its I/O recorded
InitTrace ==
  InitWith({"A"}, {c \in Configs : "auto_start" \notin DOMAIN c.attrs}, TRUE)

NextTrace ==
  \/ LoopStep("A", AllOutcomes)
  \/ Start("A")
  \/ Stop("A")

SpecTrace == InitTrace /\ [][NextTrace]_vars

\* validate_config on every set of attributes
InitValidate == InitWith({"A"}, TwoConfigs, FALSE)

NextValidate == \E fields \in FieldSets : ValidateConfig(fields)

SpecValidate == InitValidate /\ [][NextValidate]_vars

\* load_color_config on every color_attributes of ColorInputs
InitColors == InitWith({"A"}, TwoConfigs, FALSE)

NextColors == \E color_attrs \in ColorInputs : LoadColorConfig(color_attrs)

SpecColors == InitColors /\ [][NextColors]_vars

(***************************************************************************)
(* Reading a recorded run.                                                 *)
(***************************************************************************)
TraceA == trace["A"]

IsControl(e) == e.ev = "control_rgb_led"
IsReadEvent(e) == e.ev \in {"read", "read_error"}
IsError(e) == e.ev \in {"read_error", "led_error"}

ControlColors(tr) ==
  LET cs == SelectSeq(tr, IsControl) IN [k \in 1..Len(cs) |-> cs[k].color]

\* the command recorded at k has returned without an exception
Succeeded(tr, k) ==
  /\ IsControl(tr[k])
  /\ ~(k < Len(tr) /\ tr[k + 1].ev = "led_error")
  /\ ~(k = Len(tr) /\ pc["A"] \in {"cmd", "startup"})

\* the color the table of A gives the readings rd
Mapped(rd) ==
  LET got == dict_get(rd, "detection_status", VStr(NoTarget))
  IN IF got.t = "str" /\ got.s \in Statuses
       THEN color_attributes["A"][got.s]
       ELSE color_attributes["A"][NoTarget]

\* last_color before the event at k: the last tick command that succeeded
\* (the ripple and the startup command are the events 1 and 2)
LastSentBefore(tr, k) ==
  LET S == {j \in 3..(k - 1) : IsControl(tr[j]) /\ tr[j + 1].ev # "led_error"}
  IN IF S = {} THEN <<>> ELSE <<tr[CHOOSE j \in S : \A m \in S : m <= j].color>>

(***************************************************************************)
(* C1.  In a run with a bound LED and the default colors, after the three  *)
(* ticks that read No Target, No Target, Moving Target (and no failure),   *)
(* the control_rgb_led commands sent are exactly (0,0,1) then (1,0,0).     *)
(***************************************************************************)
C1_ThreeTicks ==
  /\ rgb_led["A"]
  /\ color_attributes["A"] = DEFAULT_COLORS
  /\ pc["A"] = "sleep"
  /\ SelectSeq(TraceA, IsReadEvent)
       = << EvRead(ReadingOf(VStr(NoTarget))), EvRead(ReadingOf(VStr(NoTarget))),
            EvRead(ReadingOf(VStr(MovingTarget))) >>
  /\ SelectSeq(TraceA, IsError) = <<>>

C1_TwoCommands ==
  C1_ThreeTicks => ControlColors(TraceA) = << Color(0, 0, 10), Color(10, 0, 0) >>

(***************************************************************************)
(* C2.  The loop never sends a control_rgb_led command whose color equals  *)
(* the color of the last control_rgb_led command it sent with success.     *)
(***************************************************************************)
C2_NoRepeatedColor ==
  \A k, m \in 1..Len(TraceA) :
    ( /\ k < m
      /\ Succeeded(TraceA, k)
      /\ IsControl(TraceA[m])
      /\ \A j \in (k + 1)..(m - 1) : ~Succeeded(TraceA, j) )
    => TraceA[m].color # TraceA[k].color

(***************************************************************************)
(* C3.  After any sequence of start, stop, reconfigure and close calls a   *)
(* controller has at most one live loop task.                              *)
(***************************************************************************)
C3_AtMostOneTask == \A i \in insts : tasks[i] <= 1

\* start() has just been called twice in a row
C3_Witness ==
  /\ lastCall.op = "start"
  /\ repeated
  /\ tasks[lastCall.inst] <= 1

(***************************************************************************)
(* C4.  After start() with no live task the flag is clear and a loop task  *)
(* has been launched.                                                      *)
(***************************************************************************)
C4_StartLaunches ==
  lastCall.op = "start" =>
    /\ ~flag(lastCall.inst)
    /\ tasks[lastCall.inst] = 1

(***************************************************************************)
(* C5.  A loop whose controller has been stopped or closed, and not        *)
(* started since, leaves at the end of the current tick's sleep: its next  *)
(* test of the flag ends it.                                               *)
(***************************************************************************)
C5_StoppedLoopEnds ==
  [][\A i \in insts :
       (stopped[i] /\ pc[i] \in {"sleep", "yield"} /\ pc'[i] # pc[i])
         => pc'[i] \in {"yield", "done"}]_vars

(***************************************************************************)
(* C6.  A read that raises does not end the loop: the next thing the run   *)
(* does is the next tick's read (or it sees a cancellation), and when that *)
(* read succeeds with a color other than the last one sent, the command    *)
(* for that color follows.                                                 *)
(***************************************************************************)
C6_ReadFailureSurvived ==
  \A k \in 1..Len(TraceA) :
    TraceA[k].ev = "read_error" =>
      /\ k = Len(TraceA) => pc["A"] \in {"sleep", "read"}
      /\ k < Len(TraceA) => TraceA[k + 1].ev \in {"read", "read_error", "cancelled"}
      /\ ( /\ k < Len(TraceA)
           /\ TraceA[k + 1].ev = "read"
           /\ hashable(dict_get(TraceA[k + 1].readings, "detection_status", VStr(NoTarget)))
           /\ rgb_led["A"]
           /\ <<Mapped(TraceA[k + 1].readings)>> # LastSentBefore(TraceA, k) )
         => /\ k + 2 <= Len(TraceA)
            /\ TraceA[k + 2] = EvControl(Mapped(TraceA[k + 1].readings))

\* a failed read, then a read of Moving Target, then the command for red
C6_Witness ==
  \E k \in 1..Len(TraceA) :
    /\ k + 2 <= Len(TraceA)
    /\ TraceA[k].ev = "read_error"
    /\ TraceA[k + 1] = EvRead(ReadingOf(VStr(MovingTarget)))
    /\ TraceA[k + 2] = EvControl(Color(10, 0, 0))

(***************************************************************************)
(* C7.  With a null LED handle the loop starts without an error: launched  *)
(* with the flag clear, it goes on to its first tick.                      *)
(***************************************************************************)
C7_NullLedDegraded ==
  [][\A i \in insts :
       ( /\ ~rgb_led[i]
         /\ ~flag(i)
         /\ pc[i] \in {"idle", "done", "raised_attr", "raised_io"}
         /\ pc'[i] # pc[i] )
       => pc'[i] \in {"read", "sleep"}]_vars

(***************************************************************************)
(* C8.  A call on one controller never changes the cancellation flag of    *)
(* another.                                                                *)
(***************************************************************************)
C8_OwnFlag ==
  [][\A j \in insts : lastCall'.inst # j => flag(j)' = flag(j)]_vars

(***************************************************************************)
(* C9.  validate_config raises exactly when one of board, sensor, rgb_led  *)
(* is absent or no string, and otherwise returns their values in order.    *)
(***************************************************************************)
IsString(v) == v.t \in {"str", "numstr"}

C9_ValidateConfig ==
  LET bad == {k \in {"board", "sensor", "rgb_led"} :
                k \notin DOMAIN vc_fields \/ ~IsString(vc_fields[k])}
  IN IF bad # {}
       THEN vc_result.raised
       ELSE /\ ~vc_result.raised
            /\ vc_result.dependencies
                 = <<vc_fields["board"], vc_fields["sensor"], vc_fields["rgb_led"]>>

\* an accepted configuration, its three names returned in the order of the keys
C9_Witness ==
  /\ vc_fields = ("board" :> VStr("a")) @@ ("sensor" :> VStr("b")) @@ ("rgb_led" :> VStr("a"))
  /\ vc_result.dependencies = <<VStr("a"), VStr("b"), VStr("a")>>

(***************************************************************************)
(* C10.  do_command returns a mapping over the command's names, false for  *)
(* every name but start and stop, and runs the start transition for start. *)
(***************************************************************************)
C10_DoCommand ==
  lastCall.op = "do_command" =>
    /\ ~lastCall.raised
    /\ DOMAIN lastCall.value = lastCall.keys
    /\ \A k \in lastCall.keys :
         /\ lastCall.value[k] \in BOOLEAN
         /\ k \notin {"start", "stop"} => lastCall.value[k] = FALSE
    /\ ("start" \in lastCall.keys /\ "stop" \notin lastCall.keys) => ~flag(lastCall.inst)

(***************************************************************************)
(* C11.  After a reconfigure whose attributes omit auto_start, auto_start  *)
(* is true and the start transition has run (the flag is clear), whatever  *)
(* auto_start was before.                                                  *)
(***************************************************************************)
C11_OmittedAutoStart ==
  ( /\ lastCall.op = "reconfigure"
    /\ ~lastCall.raised
    /\ "auto_start" \notin lastCall.keys )
  => /\ auto_start[lastCall.inst]
     /\ ~flag(lastCall.inst)

(***************************************************************************)
(* C12.  A tick whose readings carry a detection status that is none of    *)
(* the four statuses, or no detection_status at all, resolves the No       *)
(* Target color of the table: with a bound LED the command for that color  *)
(* follows the read when it differs from the last color sent, and no       *)
(* command follows it otherwise.                                           *)
(***************************************************************************)
Unrecognized(rd) ==
  LET got == dict_get(rd, "detection_status", VStr(NoTarget))
  IN ~(got.t = "str" /\ got.s \in Statuses)

C12_UnrecognizedIsNoTarget ==
  \A k \in 1..Len(TraceA) :
    ( /\ TraceA[k].ev = "read"
      /\ Unrecognized(TraceA[k].readings)
      /\ rgb_led["A"] )
    => IF <<color_attributes["A"][NoTarget]>> # LastSentBefore(TraceA, k)
         THEN /\ k < Len(TraceA)
              /\ TraceA[k + 1] = EvControl(color_attributes["A"][NoTarget])
         ELSE k < Len(TraceA) => ~IsControl(TraceA[k + 1])

(***************************************************************************)
(* C13.  For each status and each channel, the table load_color_config     *)
(* builds holds clamp(v, 0, 1), where v is the number color_attributes     *)
(* gives that status and channel when it gives one, and the default of the *)
(* status otherwise (overrides whose supplied channels are all numbers).   *)
(***************************************************************************)
Clamp01(v) == IF v < 0 THEN 0 ELSE IF v > 10 THEN 10 ELSE v

NumericOverride(entry) ==
  /\ entry.t = "dict"
  /\ \A ch \in DOMAIN entry.items : entry.items[ch].t = "num"

C13_ClampedOverrides ==
  lc_color_attrs.t = "dict" =>
    \A n \in 1..Len(color_keys) :
      LET status == color_keys[n][2]
          entry == dict_get(lc_color_attrs.items, color_keys[n][1], VDict(EmptyDict))
      IN NumericOverride(entry) =>
           /\ ~lc_result.raised
           /\ \A m \in 1..Len(Channels) :
                LET ch == Channels[m]
                    v == IF ch \in DOMAIN entry.items
                           THEN entry.items[ch].v ELSE DEFAULT_COLORS[status][ch]
                IN lc_result.colors[status][ch] = Clamp01(v)

\* red = 1.5 and green = -0.2 for Static Target: the table holds (1, 0, 0)
C13_Witness ==
  /\ lc_color_attrs = VDict(CustomColors)
  /\ lc_result.colors[StaticTarget] = Color(10, 0, 0)
  /\ lc_result.colors[NoTarget] = Color(0, 0, 10)

(***************************************************************************)
(* C14.  Whatever color_attributes is, reconfigure does not raise because  *)
(* of it, and afterwards the color table has an entry, with its channels   *)
(* in [0, 1], for each of the four statuses.                               *)
(***************************************************************************)
C14_ReconfigureTolerant ==
  lastCall.op = "reconfigure" =>
    /\ ~lastCall.raised
    /\ DOMAIN color_attributes[lastCall.inst] = Statuses
    /\ \A st \in Statuses : \A m \in 1..Len(Channels) :
         color_attributes[lastCall.inst][st][Channels[m]] \in 0..10

(***************************************************************************)
(* C15.  stop() on a controller with no loop running raises nothing,       *)
(* creates and cancels no task, moves no coroutine (so no sensor or LED    *)
(* call is made), and leaves the handles, the color table and auto_start   *)
(* as they were: the controller stays idle.                                *)
(***************************************************************************)
Idle(i) == pc[i] \in {"idle", "done", "raised_attr", "raised_io"} /\ tasks[i] = 0

\* the step is a call of stop() on i
StopStep(i) ==
  /\ lastCall'.op = "stop"
  /\ lastCall'.inst = i
  /\ <<lastCall, repeated, stopped, event>>' # <<lastCall, repeated, stopped, event>>

C15_StopWhenIdle ==
  [][\A i \in insts :
       (StopStep(i) /\ Idle(i))
         => /\ ~lastCall'.raised
            /\ tasks' = tasks
            /\ task' = task
            /\ UNCHANGED <<pc, last_color, color, trace>>
            /\ UNCHANGED <<auto_start, sensor, rgb_led, color_attributes>>
            /\ Idle(i)']_vars

\* stop() has been called on a controller whose loop was never launched
C15_Witness ==
  /\ lastCall.op = "stop"
  /\ pc[lastCall.inst] = "idle"
  /\ flag(lastCall.inst)
  /\ task = "None"
  /\ tasks[lastCall.inst] = 0

(***************************************************************************)
(* C16.  An LED command that raises (the ripple, the startup command or a  *)
(* tick's control_rgb_led) never ends the loop: the coroutine goes on to   *)
(* its next await and no exception leaves control_loop.                    *)
(***************************************************************************)
C16_LedErrorContained ==
  [][\A i \in insts :
       (pc[i] \in {"ripple", "startup", "cmd"} /\ pc'[i] # pc[i])
         => pc'[i] \notin {"raised_io", "raised_attr", "done", "idle"}]_vars

(***************************************************************************)
(* C17.  reconfigure stops the running loop: a reconfigure called while    *)
(* the loop of the controller runs, and leaving auto_start false, leaves   *)
(* the loop stopped (its flag set), so that it starts no tick with the     *)
(* handles and the table just bound.                                       *)
(***************************************************************************)
Running(i) == pc[i] \in {"ripple", "ripple_sleep", "startup", "read", "cmd", "sleep"}

\* the step is a call of reconfigure() on i
ReconfigureStep(i) ==
  /\ lastCall'.op = "reconfigure"
  /\ lastCall'.inst = i
  /\ <<lastCall, repeated, stopped, event, auto_start, sensor, rgb_led, color_attributes>>'
       # <<lastCall, repeated, stopped, event, auto_start, sensor, rgb_led, color_attributes>>

C17_ReconfigureStopsLoop ==
  [][\A i \in insts :
       ( /\ ReconfigureStep(i)
         /\ Running(i)
         /\ ~lastCall'.raised
         /\ ~auto_start'[i] )
       => flag(i)']_vars

(***************************************************************************)
(* C18.  A tick without a sensor handle takes No Target for its status:    *)
(* with a bound LED the command for the No Target color follows on that    *)
(* tick when it differs from the last color sent, and no command           *)
(* otherwise.  A tick whose get_readings() raises sends no command and     *)
(* keeps the last color sent; the loop goes on with the next tick.         *)
(***************************************************************************)
\* the tick recorded at k resolved No Target and acted on it
ActsOnNoTarget(k) ==
  IF <<color_attributes["A"][NoTarget]>> # LastSentBefore(TraceA, k)
    THEN /\ k < Len(TraceA)
         /\ TraceA[k + 1] = EvControl(color_attributes["A"][NoTarget])
    ELSE k < Len(TraceA) => ~IsControl(TraceA[k + 1])

\* as the claim has it: the failed read is a No Target tick too
C18_FailureIsNoTarget ==
  \A k \in 1..Len(TraceA) :
    (TraceA[k].ev \in {"no_sensor", "read_error"} /\ rgb_led["A"]) => ActsOnNoTarget(k)

C18_NullSensorOrSkip ==
  \A k \in 1..Len(TraceA) :
    /\ (TraceA[k].ev = "no_sensor" /\ rgb_led["A"]) => ActsOnNoTarget(k)
    /\ TraceA[k].ev = "read_error" =>
         /\ k < Len(TraceA) => TraceA[k + 1].ev \in {"read", "read_error", "cancelled"}
         /\ k = Len(TraceA) =>
              /\ pc["A"] \in {"sleep", "read"}
              /\ last_color["A"] = LastSentBefore(TraceA, k)

\* a failed read while the last color sent is not the No Target color, and
\* the next event of the run is the next tick's read: no command was sent
C18_Witness ==
  \E k \in 1..Len(TraceA) :
    /\ TraceA[k].ev = "read_error"
    /\ rgb_led["A"]
    /\ LastSentBefore(TraceA, k) # <<color_attributes["A"][NoTarget]>>
    /\ k < Len(TraceA)
    /\ TraceA[k + 1].ev = "read"

(***************************************************************************)
(* C19.  A run of on_loop entered with a bound LED sends the ripple        *)
(* command exactly once, before any other command or read of the run, and  *)
(* never again on a later tick.                                            *)
(***************************************************************************)
C19_OneRipple ==
  (rgb_led["A"] /\ (Running("A") \/ TraceA # <<>>)) =>
    /\ Len(TraceA) >= 1
    /\ TraceA[1] = EvRipple
    /\ \A k \in 2..Len(TraceA) : TraceA[k].ev # "ripple"

\* a run that has sent the ripple and gone through two ticks since
C19_Witness ==
  /\ rgb_led["A"]
  /\ pc["A"] = "sleep"
  /\ Len(TraceA) >= 1
  /\ TraceA[1] = EvRipple
  /\ Len(SelectSeq(TraceA, IsReadEvent)) >= 2

(***************************************************************************)
(* C20.  The last color sent changes only when a control_rgb_led command   *)
(* of a tick succeeds.  When the command raises, last_color keeps the      *)
(* value it had, so the next tick that resolves the same color sends the   *)
(* command again.                                                          *)
(***************************************************************************)
\* the color the tick recorded at k resolves, <<>> when it resolves none
ResolvedAt(k) ==
  CASE TraceA[k].ev = "no_sensor" -> <<color_attributes["A"][NoTarget]>>
    [] TraceA[k].ev = "read"
         /\ hashable(dict_get(TraceA[k].readings, "detection_status", VStr(NoTarget)))
       -> <<Mapped(TraceA[k].readings)>>
    [] OTHER -> <<>>

C20_FailedCommandRetried ==
  \A k \in 3..Len(TraceA) :
    IsControl(TraceA[k]) =>
      /\ (k = Len(TraceA) /\ pc["A"] # "cmd") => last_color["A"] = <<TraceA[k].color>>
      /\ (k < Len(TraceA) /\ TraceA[k + 1].ev = "led_error") =>
           /\ k + 1 = Len(TraceA) => last_color["A"] = LastSentBefore(TraceA, k)
           /\ (k + 2 <= Len(TraceA) /\ ResolvedAt(k + 2) = <<TraceA[k].color>>)
                => /\ k + 3 <= Len(TraceA)
                   /\ TraceA[k + 3] = EvControl(TraceA[k].color)

\* a command that failed, then a tick resolving the same color, then the
\* same command again
C20_Witness ==
  \E k \in 3..Len(TraceA) :
    /\ k + 3 <= Len(TraceA)
    /\ IsControl(TraceA[k])
    /\ TraceA[k + 1].ev = "led_error"
    /\ TraceA[k + 2].ev = "read"
    /\ TraceA[k + 3] = EvControl(TraceA[k].color)

====
